---- MODULE Spec2Model ----
(***************************************************************************)
(* Model of grabber.py: the EPG grabber that fetches XML/JSON sources,     *)
(* remaps channel ids, merges them into one XMLTV tree and writes it.      *)
(*                                                                         *)
(* Python values are modelled as follows.  None is the string None below;  *)
(* all other scalar values are strings, so str() leaves them unchanged.    *)
(* An XML element is [tag, attrib, children]; attrib holds the four        *)
(* attributes the program reads or writes, None meaning "attribute         *)
(* absent"; a child is [tag, text].  A dict read with .get() is a record   *)
(* whose absent keys hold None.                                            *)
(***************************************************************************)
EXTENDS Naturals, Sequences, FiniteSets, TLC

VARIABLES pc, exit_code, mappings, sources, log, tv_root, seen_channels,
          programmes, is_xml_content, is_json_content, write_attempts,
          write_result

vars == <<pc, exit_code, mappings, sources, log, tv_root, seen_channels,
          programmes, is_xml_content, is_json_content, write_attempts,
          write_result>>

\* Number of entries of cfg['sources'] a run goes through.
MaxSources == 2

None == "None"

-----------------------------------------------------------------------------
(* Python helpers *)

\* bool(v) for None and strings
Truthy(v) == v \notin {None, ""}

\* a or b
Or(a, b) == IF Truthy(a) THEN a ELSE b

\* s.strip() on the texts of the model: blank texts strip to ""
strip(s) == IF s \in {"", " ", "  "} THEN "" ELSE s

\* elem.findall(tag): the direct children with that tag, in document order
findall(elems, tag) == SelectSeq(elems, LAMBDA e : e.tag = tag)

Child(tag, text) == [tag |-> tag, text |-> text]

Attrib(id, channel, start, stop) ==
    [id |-> id, channel |-> channel, start |-> start, stop |-> stop]

Element(tag, attrib, children) ==
    [tag |-> tag, attrib |-> attrib, children |-> children]

-----------------------------------------------------------------------------
(* Responses *)

\* bytes of a response: magic = the first two bytes are 1f 8b; valid = the
\* gzip stream can be read to its end; payload = the text it carries
Bytes(magic, valid, payload) ==
    [magic |-> magic, valid |-> valid, payload |-> payload]

Ok(v) == [ok |-> TRUE, val |-> v]
Raise(v) == [ok |-> FALSE, val |-> v]

-----------------------------------------------------------------------------
(* Content of a response.  kind says what the text is:                     *)
(*   "xml"     a well-formed XML document, items = the root's children     *)
(*   "badxml"  starts like XML but is not well-formed; items = the         *)
(*             children that precede the syntax error                      *)
(*   "jsonobj" a JSON object with the three array fields (absent = <<>>)   *)
(*   "jsonarr" a JSON array                                                *)
(*   "badjson" starts with { but is not valid JSON                         *)
(*   "other"   text that is neither                                        *)

Text(kind, items, channels, programs, programmes_) ==
    [kind |-> kind, items |-> items, channels |-> channels,
     programs |-> programs, programmes |-> programmes_]

\* first byte of raw.lstrip()
Lead(text) ==
    CASE text.kind \in {"xml", "badxml"}      -> "<"
      [] text.kind \in {"jsonobj", "badjson"} -> "{"
      [] text.kind = "jsonarr"                -> "["
      [] OTHER                                -> "x"

-----------------------------------------------------------------------------
(* Inputs: remap tables, documents, what the urls answer, source entries *)

\* results of load_channel_mappings: no table, one that sends a onto b, and
\* one that swaps a and b
Tables == { <<>>, "a" :> "b", ("a" :> "b") @@ ("b" :> "a") }

XChannel(id, children) ==
    Element("channel", Attrib(id, None, None, None), children)

XProgramme(channel) ==
    Element("programme", Attrib(None, channel, "s", "e"),
            <<Child("title", "T"), Child("desc", "D")>>)

JChannel(id, channel, guid, display_name, name, title) ==
    [id |-> id, channel |-> channel, guid |-> guid,
     display_name |-> display_name, name |-> name, title |-> title]

JProgramme(channel, start, stop, title, desc, description) ==
    [channel |-> channel, start |-> start, stop |-> stop, title |-> title,
     desc |-> desc, description |-> description]

XmlDoc(items) == Text("xml", items, <<>>, <<>>, <<>>)

JsonDoc(channels, programs, programmes_) ==
    Text("jsonobj", <<>>, channels, programs, programmes_)

Plain(text) == [fetch_ok |-> TRUE, content |-> Bytes(FALSE, TRUE, text)]

\* what each url answers
Web ==
    \* connection refused, timeout or non-2xx status
    ("u_down" :> [fetch_ok |-> FALSE,
                  content |-> Bytes(FALSE, TRUE, XmlDoc(<<>>))]) @@
    \* gzip magic, corrupt stream
    ("u_gzbad" :> [fetch_ok |-> TRUE, content |->
        Bytes(TRUE, FALSE,
              XmlDoc(<< XChannel("a", <<Child("display-name", "A")>>),
                        XProgramme("a") >>))]) @@
    \* gzip-compressed XMLTV
    ("u_gz" :> [fetch_ok |-> TRUE, content |->
        Bytes(TRUE, TRUE,
              XmlDoc(<< XChannel("b", <<Child("display-name", "B")>>),
                        XProgramme(None) >>))]) @@
    \* XMLTV documents
    ("u_x0" :> Plain(XmlDoc(<<>>))) @@
    ("u_x1" :> Plain(XmlDoc(
        << XChannel("a", <<Child("display-name", "A")>>),
           XProgramme("a") >>))) @@
    ("u_x2" :> Plain(XmlDoc(
        << XProgramme("b"),
           XChannel("b", <<Child("display-name", " ")>>),
           XChannel("a", <<Child("icon", None),
                           Child("display-name", "B")>>) >>))) @@
    ("u_x3" :> Plain(XmlDoc(
        << XChannel("a", <<Child("display-name", "A")>>),
           XChannel("b", <<>>),
           XChannel("a", <<Child("display-name", "B")>>) >>))) @@
    ("u_x4" :> Plain(XmlDoc(
        << XChannel(None, <<>>), XProgramme("a") >>))) @@
    \* JSON objects
    ("u_j0" :> Plain(JsonDoc(<<>>, <<>>, <<>>))) @@
    ("u_j1" :> Plain(JsonDoc(
        << JChannel("a", None, None, None, "B", None) >>,
        << JProgramme("a", "s", "e", "T", "D", None) >>, <<>>))) @@
    ("u_j2" :> Plain(JsonDoc(
        << JChannel(None, None, "b", None, None, None),
           JChannel("", "b", "a", "", None, "T") >>,
        << JProgramme("b", "s", None, "T", None, None) >>,
        << JProgramme("b", "s", "e", None, None, "D") >>))) @@
    ("u_j3" :> Plain(JsonDoc(
        << JChannel(None, None, None, None, None, None) >>, <<>>, <<>>))) @@
    \* texts that are no document
    ("u_badxml" :> Plain(Text("badxml",
        << XChannel("b", <<Child("display-name", "B")>>), XProgramme("b") >>,
        <<>>, <<>>, <<>>))) @@
    ("u_badjson" :> Plain(Text("badjson", <<>>, <<>>, <<>>, <<>>))) @@
    ("u_arr" :> Plain(Text("jsonarr", <<>>, <<>>, <<>>, <<>>))) @@
    ("u_txt" :> Plain(Text("other", <<>>, <<>>, <<>>, <<>>)))

Source(url, stype) == [url |-> url, stype |-> stype]

\* entries of cfg['sources']: one without url, every url with no declared
\* type, and one url of each kind of text under either declared type
Sources ==
    { Source(None, None) }
    \cup { Source(u, None) : u \in DOMAIN Web }
    \cup { Source(u, ty) : u \in {"u_x1", "u_j1", "u_arr", "u_txt"},
                          ty \in {"xml", "json"} }

-----------------------------------------------------------------------------
(* Fetch / decompress *)

\* requests.get + raise_for_status: the content, or an exception
fetch_url(url) ==
    IF Web[url].fetch_ok THEN Ok(Web[url].content) ELSE Raise(Web[url].content)

is_gzip(content) == content.magic

\* variant: a corrupt stream yields what could be read instead of raising
decompress_lenient(content) ==
    IF is_gzip(content)
    THEN Ok(Bytes(FALSE, TRUE, content.payload))
    ELSE Ok(content)

decompress_if_gzip(content) ==
    IF is_gzip(content)
    THEN IF content.valid
         THEN Ok(Bytes(FALSE, TRUE, content.payload))
         ELSE Raise(content)
    ELSE Ok(content)

-----------------------------------------------------------------------------
(* Channel id mapping *)

\* variant: the lookup is repeated on its own result
map_channel_id_twice(orig_id, m) ==
    LET once == IF orig_id \in DOMAIN m THEN m[orig_id] ELSE orig_id
    IN  IF once \in DOMAIN m THEN m[once] ELSE once

map_channel_id(orig_id, m) ==
    IF orig_id \in DOMAIN m THEN m[orig_id] ELSE orig_id

\* index of the first display-name child, 0 when there is none
FirstDisplayName(children) ==
    IF \E k \in 1..Len(children) : children[k].tag = "display-name"
    THEN CHOOSE k \in 1..Len(children) :
            /\ children[k].tag = "display-name"
            /\ \A j \in 1..(k-1) : children[j].tag # "display-name"
    ELSE 0

ensure_display_name(channel_el, fallback) ==
    LET found == FirstDisplayName(channel_el.children)
        kids  == IF found = 0
                 THEN Append(channel_el.children, Child("display-name", None))
                 ELSE channel_el.children
        k     == IF found = 0 THEN Len(kids) ELSE found
        dn    == kids[k]
    IN  IF (dn.text = None \/ strip(dn.text) = "") /\ Truthy(fallback)
        THEN [channel_el EXCEPT !.children =
                 [kids EXCEPT ![k] = Child("display-name", fallback)]]
        ELSE [channel_el EXCEPT !.children = kids]

-----------------------------------------------------------------------------
(* JSON -> XMLTV *)

json_channel_to_element(ch, m) ==
    LET orig_id == Or(ch.id, Or(ch.channel, Or(ch.guid, "")))
        new_id  == map_channel_id(orig_id, m)
        display_name == Or(ch.display_name, Or(ch.name, Or(ch.title, new_id)))
    IN  Element("channel", Attrib(new_id, None, None, None),
                <<Child("display-name", display_name)>>)

\* `if not (channel and start and stop): return None` keeps the entry
JsonProgrammeKept(p) == Truthy(p.channel) /\ Truthy(p.start) /\ Truthy(p.stop)

json_programme_to_element(p, m) ==
    Element("programme",
            Attrib(None, map_channel_id(p.channel, m), p.start, p.stop),
            << Child("title", Or(p.title, "")),
               Child("desc", Or(p.desc, Or(p.description, ""))) >>)

json_to_xmltv_root(json_obj, m) ==
    LET chs   == [k \in 1..Len(json_obj.channels) |->
                     json_channel_to_element(json_obj.channels[k], m)]
        all   == json_obj.programs \o json_obj.programmes
        kept  == SelectSeq(all, JsonProgrammeKept)
        progs == [k \in 1..Len(kept) |-> json_programme_to_element(kept[k], m)]
    IN  chs \o progs

-----------------------------------------------------------------------------
(* XML processing *)

copy_and_map_channel_element(ch, m) ==
    LET orig_id == IF ch.attrib.id = None THEN "" ELSE ch.attrib.id
        new_id  == map_channel_id(orig_id, m)
        new_ch  == Element("channel", Attrib(new_id, None, None, None),
                     [k \in 1..Len(ch.children) |->
                         Child(ch.children[k].tag, ch.children[k].text)])
    IN  ensure_display_name(new_ch, new_id)

copy_and_map_programme_element(prog, m) ==
    LET chan == IF prog.attrib.channel = None THEN "" ELSE prog.attrib.channel
    IN  Element("programme",
                [prog.attrib EXCEPT !.channel = map_channel_id(chan, m)],
                [k \in 1..Len(prog.children) |->
                    Child(prog.children[k].tag, prog.children[k].text)])

-----------------------------------------------------------------------------
(* Parsing and format detection *)

\* ET.fromstring(content): the root's children, or ParseError
xml_fromstring(text) ==
    IF text.kind = "xml" THEN Ok(text.items) ELSE Raise(<<>>)

\* json.loads(...) followed by json_to_xmltv_root(j, mappings): the children
\* of the converted root; json.loads raises on invalid JSON and .get raises
\* on a JSON array
json_loads_to_root(text, m) ==
    IF text.kind = "jsonobj" THEN Ok(json_to_xmltv_root(text, m))
    ELSE Raise(<<>>)

IsXmlContent(content, stype) == Lead(content.payload) = "<" \/ stype = "xml"

IsJsonContent(content, stype) ==
    /\ ~IsXmlContent(content, stype)
    /\ (stype = "json" \/ Lead(content.payload) \in {"{", "["})

-----------------------------------------------------------------------------
(* Merge logic *)

ChannelIds(tv) == {tv[k].attrib.id : k \in 1..Len(tv)}

\* variant: a channel whose id was seen replaces the one kept
RECURSIVE MergeXmlChannelsLastWins(_, _, _, _)
MergeXmlChannelsLastWins(chs, m, tv, seen) ==
    IF chs = <<>> THEN [tv |-> tv, seen |-> seen]
    ELSE LET new_ch == copy_and_map_channel_element(Head(chs), m)
             new_id == new_ch.attrib.id
         IN  IF new_id \in seen
             THEN MergeXmlChannelsLastWins(Tail(chs), m,
                      [k \in 1..Len(tv) |->
                          IF tv[k].attrib.id = new_id THEN new_ch ELSE tv[k]],
                      seen)
             ELSE MergeXmlChannelsLastWins(Tail(chs), m, Append(tv, new_ch),
                                           seen \cup {new_id})

\* for ch in other.findall('channel'): ... (XML branch)
RECURSIVE MergeXmlChannels(_, _, _, _)
MergeXmlChannels(chs, m, tv, seen) ==
    IF chs = <<>> THEN [tv |-> tv, seen |-> seen]
    ELSE LET new_ch == copy_and_map_channel_element(Head(chs), m)
             new_id == new_ch.attrib.id
         IN  IF new_id \in seen
             THEN MergeXmlChannels(Tail(chs), m, tv, seen)
             ELSE MergeXmlChannels(Tail(chs), m, Append(tv, new_ch),
                                   seen \cup {new_id})

\* variant: the JSON branch appends without looking at seen_channels
MergeJsonChannelsNoCheck(chs, tv, seen) ==
    [tv |-> tv \o chs, seen |-> seen \cup ChannelIds(chs)]

\* for ch in other_root.findall('channel'): ... (JSON branch)
RECURSIVE MergeJsonChannels(_, _, _)
MergeJsonChannels(chs, tv, seen) ==
    IF chs = <<>> THEN [tv |-> tv, seen |-> seen]
    ELSE LET ch_id == Head(chs).attrib.id
         IN  IF ch_id \in seen
             THEN MergeJsonChannels(Tail(chs), tv, seen)
             ELSE MergeJsonChannels(Tail(chs), Append(tv, Head(chs)),
                                    seen \cup {ch_id})

\* variant: a programme equal to one already collected is not added again
RECURSIVE AppendNewProgrammes(_, _)
AppendNewProgrammes(progs, new) ==
    IF new = <<>> THEN progs
    ELSE IF \E k \in 1..Len(progs) : progs[k] = Head(new)
         THEN AppendNewProgrammes(progs, Tail(new))
         ELSE AppendNewProgrammes(Append(progs, Head(new)), Tail(new))

\* programmes.append(...) for every programme of the source
AppendProgrammes(progs, new) == progs \o new

Result(tv, seen, progs, isx, isj, entry) ==
    [tv_root |-> tv, seen_channels |-> seen, programmes |-> progs,
     is_xml_content |-> isx, is_json_content |-> isj, log |-> entry]

\* One pass of "for src in sources" from the state st; the log field is the
\* message the pass prints.
Iteration(src, m, st) ==
    LET keep(entry) == Result(st.tv_root, st.seen_channels, st.programmes,
                              st.is_xml_content, st.is_json_content, entry)
    IN
    IF ~Truthy(src.url) THEN keep("no_url")
    ELSE
    LET fetched == fetch_url(src.url)
        raw     == IF fetched.ok THEN decompress_if_gzip(fetched.val)
                   ELSE fetched
    IN
    IF ~raw.ok THEN keep("fetch_error")
    ELSE
    LET content == raw.val
        isx     == IsXmlContent(content, src.stype)
        isj     == IsJsonContent(content, src.stype)
        fail(entry) == Result(st.tv_root, st.seen_channels, st.programmes,
                              isx, isj, entry)
    IN
    IF isx THEN
        LET other == xml_fromstring(content.payload)
        IN  IF ~other.ok THEN fail("parse_error")
            ELSE
            LET merged == MergeXmlChannels(findall(other.val, "channel"), m,
                                           st.tv_root, st.seen_channels)
                found  == findall(other.val, "programme")
                progs  == [k \in 1..Len(found) |->
                              copy_and_map_programme_element(found[k], m)]
            IN  Result(merged.tv, merged.seen,
                       AppendProgrammes(st.programmes, progs),
                       isx, isj, "ok_xml")
    ELSE IF isj THEN
        LET other_root == json_loads_to_root(content.payload, m)
        IN  IF ~other_root.ok THEN fail("parse_error")
            ELSE
            LET merged == MergeJsonChannels(findall(other_root.val, "channel"),
                                            st.tv_root, st.seen_channels)
            IN  Result(merged.tv, merged.seen,
                       AppendProgrammes(st.programmes,
                                        findall(other_root.val, "programme")),
                       isx, isj, "ok_json")
    ELSE fail("unknown")

\* variant: a failed fetch is not caught and ends the run
AfterIterationUncaught(r) ==
    IF r.log = "fetch_error" THEN "crashed" ELSE "loop"

\* where control goes after one pass: every exception of the pass is caught
AfterIteration(r) == "loop"

\* variant: the programmes are put in front of the channels
FinalTreeProgrammesFirst(tv, progs) == progs \o tv

\* tv_root once the collected programmes are appended after the channels
FinalTree(tv, progs) == tv \o progs

\* variant: a failed write ends the process with status 1
ExitAfterWriteFatal(result) == IF result = "error" THEN 1 ELSE 0

\* exit status of the process after the write step returned `result`
ExitAfterWrite(result) == 0

-----------------------------------------------------------------------------
(* The program *)

Init ==
    /\ pc = "main"
    /\ exit_code = None
    /\ mappings = <<>>
    /\ sources = <<>>
    /\ log = <<>>
    /\ tv_root = <<>>
    /\ seen_channels = {}
    /\ programmes = <<>>
    /\ is_xml_content = FALSE
    /\ is_json_content = FALSE
    /\ write_attempts = 0
    /\ write_result = None

\* main: load_config raises, or cfg has no sources: sys.exit(1)
MainFatal ==
    /\ pc = "main"
    /\ pc' = "fatal"
    /\ exit_code' = 1
    /\ UNCHANGED <<mappings, sources, log, tv_root, seen_channels, programmes,
                   is_xml_content, is_json_content, write_attempts,
                   write_result>>

\* main loads the mappings and calls merge_sources, which starts empty
MainMerge ==
    /\ pc = "main"
    /\ \E m \in Tables : mappings' = m
    /\ pc' = "loop"
    /\ tv_root' = <<>>
    /\ seen_channels' = {}
    /\ programmes' = <<>>
    /\ UNCHANGED <<exit_code, sources, log, is_xml_content, is_json_content,
                   write_attempts, write_result>>

State == [tv_root |-> tv_root, seen_channels |-> seen_channels,
          programmes |-> programmes, is_xml_content |-> is_xml_content,
          is_json_content |-> is_json_content]

\* one pass of "for src in sources" over the next entry of the list; the
\* message it prints (skipped, fetch failed, merged XML, merged JSON, unknown
\* type, parse error) is recorded in log
Pass(src) ==
    /\ pc = "loop"
    /\ Len(sources) < MaxSources
    /\ LET r == Iteration(src, mappings, State)
       IN  /\ sources' = Append(sources, src)
           /\ log' = Append(log, r.log)
           /\ tv_root' = r.tv_root
           /\ seen_channels' = r.seen_channels
           /\ programmes' = r.programmes
           /\ is_xml_content' = r.is_xml_content
           /\ is_json_content' = r.is_json_content
           /\ pc' = AfterIteration(r)
    /\ UNCHANGED <<exit_code, mappings, write_attempts, write_result>>

ProcessSource == \E src \in Sources : Pass(src)

\* the list is exhausted (main never passes an empty one): append the
\* programmes, serialize and write; the write succeeds or raises, and the
\* exception is caught and printed
WriteOutput ==
    /\ pc = "loop"
    /\ Len(sources) >= 1
    /\ tv_root' = FinalTree(tv_root, programmes)
    /\ write_attempts' = write_attempts + 1
    /\ \E result \in {"done", "error"} :
          /\ write_result' = result
          /\ exit_code' = ExitAfterWrite(result)
    /\ pc' = "done"
    /\ UNCHANGED <<mappings, sources, log, seen_channels, programmes,
                   is_xml_content, is_json_content>>

Next ==
    \/ MainFatal
    \/ MainMerge
    \/ ProcessSource
    \/ WriteOutput

Spec == Init /\ [][Next]_vars

\* every step of the sequential program ends (fetches time out), so the run
\* keeps moving until it has written or exited
FairSpec == Spec /\ WF_vars(Next)

-----------------------------------------------------------------------------
(* Vocabulary of the properties *)

OkEntries   == {"ok_xml", "ok_json"}
FailEntries == {"fetch_error", "unknown", "parse_error"}

Channels(tv)   == findall(tv, "channel")
Programmes(tv) == findall(tv, "programme")

Payload(i) == Web[sources[i].url].content.payload

\* the channel elements source i hands to the merge, before deduplication
NormChannels(i) ==
    IF log[i] = "ok_xml"
    THEN LET found == findall(Payload(i).items, "channel")
         IN  [k \in 1..Len(found) |->
                 copy_and_map_channel_element(found[k], mappings)]
    ELSE IF log[i] = "ok_json"
    THEN findall(json_to_xmltv_root(Payload(i), mappings), "channel")
    ELSE <<>>

\* the programme elements source i hands to the merge
NormProgrammes(i) ==
    IF log[i] = "ok_xml"
    THEN LET found == findall(Payload(i).items, "programme")
         IN  [k \in 1..Len(found) |->
                 copy_and_map_programme_element(found[k], mappings)]
    ELSE IF log[i] = "ok_json"
    THEN findall(json_to_xmltv_root(Payload(i), mappings), "programme")
    ELSE <<>>

RECURSIVE AllNormChannels(_)
AllNormChannels(n) ==
    IF n = 0 THEN <<>> ELSE AllNormChannels(n - 1) \o NormChannels(n)

RECURSIVE AllNormProgrammes(_)
AllNormProgrammes(n) ==
    IF n = 0 THEN <<>> ELSE AllNormProgrammes(n - 1) \o NormProgrammes(n)

\* the ids as the inputs spell them, before any remapping
OrigChannelIds(i) ==
    IF log[i] = "ok_xml"
    THEN LET found == findall(Payload(i).items, "channel")
         IN  [k \in 1..Len(found) |->
                 IF found[k].attrib.id = None THEN "" ELSE found[k].attrib.id]
    ELSE IF log[i] = "ok_json"
    THEN LET chs == Payload(i).channels
         IN  [k \in 1..Len(chs) |->
                 IF Truthy(chs[k].id) THEN chs[k].id
                 ELSE IF Truthy(chs[k].channel) THEN chs[k].channel
                 ELSE IF Truthy(chs[k].guid) THEN chs[k].guid
                 ELSE ""]
    ELSE <<>>

OrigProgrammeChannels(i) ==
    IF log[i] = "ok_xml"
    THEN LET found == findall(Payload(i).items, "programme")
         IN  [k \in 1..Len(found) |->
                 IF found[k].attrib.channel = None THEN ""
                 ELSE found[k].attrib.channel]
    ELSE IF log[i] = "ok_json"
    THEN LET kept == SelectSeq(Payload(i).programs \o Payload(i).programmes,
                               JsonProgrammeKept)
         IN  [k \in 1..Len(kept) |-> kept[k].channel]
    ELSE <<>>

RECURSIVE AllOrigChannelIds(_)
AllOrigChannelIds(n) ==
    IF n = 0 THEN <<>> ELSE AllOrigChannelIds(n - 1) \o OrigChannelIds(n)

RECURSIVE AllOrigProgrammeChannels(_)
AllOrigProgrammeChannels(n) ==
    IF n = 0 THEN <<>>
    ELSE AllOrigProgrammeChannels(n - 1) \o OrigProgrammeChannels(n)

\* the first display-name text of a channel element, None when it has none
DisplayName(ch) ==
    LET k == FirstDisplayName(ch.children)
    IN  IF k = 0 THEN None ELSE ch.children[k].text

\* a source that cannot deliver a document whatever the program does: the
\* fetch fails, the gzip stream is corrupt, or the text is no XML document
\* and no JSON object
Broken(src) ==
    /\ Truthy(src.url)
    /\ LET r == Web[src.url]
       IN  \/ ~r.fetch_ok
           \/ (r.content.magic /\ ~r.content.valid)
           \/ r.content.payload.kind
                 \in {"badxml", "badjson", "jsonarr", "other"}

Failing(i) == Broken(sources[i]) \/ log[i] \in FailEntries

RECURSIVE GoodSources(_)
GoodSources(n) ==
    IF n = 0 THEN <<>>
    ELSE IF Failing(n) THEN GoodSources(n - 1)
    ELSE Append(GoodSources(n - 1), sources[n])

EmptyState == [tv_root |-> <<>>, seen_channels |-> {}, programmes |-> <<>>,
               is_xml_content |-> FALSE, is_json_content |-> FALSE]

\* the loop of merge_sources run over a whole list
RECURSIVE RunMerge(_, _, _)
RunMerge(srcs, m, st) ==
    IF srcs = <<>> THEN st
    ELSE RunMerge(Tail(srcs), m, Iteration(Head(srcs), m, st))

-----------------------------------------------------------------------------
(* Properties *)

\* C1: after any prefix of the source list, and in the tree that is written,
\* the ids of the channel elements of tv_root are pairwise distinct.
C1_DistinctChannelIds ==
    LET chs == Channels(tv_root)
    IN  \A i, j \in 1..Len(chs) :
            i # j => chs[i].attrib.id # chs[j].attrib.id

\* an XML source then a JSON source, both merged under a table that remaps a,
\* offering more channel entries than tv_root kept
C1_Witness ==
    /\ Len(sources) = 2
    /\ log = <<"ok_xml", "ok_json">>
    /\ "a" \in DOMAIN mappings
    /\ Len(NormChannels(1)) > Cardinality(ChannelIds(NormChannels(1)))
    /\ ChannelIds(NormChannels(2)) \cap ChannelIds(NormChannels(1)) # {}
    /\ Len(Channels(tv_root)) >= 2

\* C2: first seen wins: tv_root holds exactly one channel per remapped id
\* offered by the merged sources, and it is the earliest entry with that id
\* in source order, unchanged (so with that entry's display name).
C2_FirstSeenWins ==
    LET chs == Channels(tv_root)
        all == AllNormChannels(Len(sources))
    IN  /\ ChannelIds(chs) = ChannelIds(all)
        /\ Cardinality(ChannelIds(chs)) = Len(chs)
        /\ \A k \in 1..Len(chs) :
              \E j \in 1..Len(all) :
                 /\ all[j] = chs[k]
                 /\ \A i \in 1..(j - 1) : all[i].attrib.id # chs[k].attrib.id

\* two sources offer the same remapped id with different display names
C2_Witness ==
    /\ Len(sources) = 2
    /\ \E a \in 1..Len(NormChannels(1)), b \in 1..Len(NormChannels(2)) :
          /\ NormChannels(1)[a].attrib.id = NormChannels(2)[b].attrib.id
          /\ DisplayName(NormChannels(1)[a]) # DisplayName(NormChannels(2)[b])
          /\ \E k \in 1..Len(tv_root) : tv_root[k] = NormChannels(1)[a]

\* C3: the declared type decides the format; the leading byte is looked at
\* only when no type is declared.
C3_DeclaredTypeWins ==
    (Len(sources) >= 1 /\ log[Len(log)] \notin {"no_url", "fetch_error"}) =>
        LET src  == sources[Len(sources)]
            lead == Lead(Web[src.url].content.payload)
        IN  /\ src.stype = "json" => (is_json_content /\ ~is_xml_content)
            /\ src.stype = "xml" => (is_xml_content /\ ~is_json_content)
            /\ src.stype = None =>
                  /\ is_xml_content = (lead = "<")
                  /\ is_json_content = (lead \in {"{", "["})

\* C4: a source that fails is logged as failed, the loop goes on, and the
\* channels and programmes collected are those the loop collects from the
\* sources that do not fail, taken in the same order.
C4_PartialFailure ==
    LET n   == Len(sources)
        ref == RunMerge(GoodSources(n), mappings, EmptyState)
    IN  /\ pc \in {"main", "fatal", "loop", "done"}
        /\ Len(log) = n
        /\ \A i \in 1..n :
              Broken(sources[i]) => log[i] \in FailEntries
        /\ Channels(tv_root) = ref.tv_root
        /\ programmes = ref.programmes
        /\ pc = "done" => Programmes(tv_root) = ref.programmes

\* a failing source followed by one that is merged, and the output written
C4_Witness ==
    /\ pc = "done"
    /\ Len(sources) = 2
    /\ log[1] \in FailEntries
    /\ log[2] \in OkEntries
    /\ Len(Channels(tv_root)) >= 1
    /\ Len(Programmes(tv_root)) >= 1

\* C5: in tv_root no programme element comes before a channel element.
C5_ChannelsFirst ==
    \A i, j \in 1..Len(tv_root) :
        (tv_root[i].tag = "programme" /\ tv_root[j].tag = "channel") => j < i

\* written tree of two sources, the first listing a programme before its
\* channels, the second adding a channel
C5_Witness ==
    /\ pc = "done"
    /\ Len(sources) = 2
    /\ log[1] = "ok_xml"
    /\ Len(Payload(1).items) >= 1
    /\ Payload(1).items[1].tag = "programme"
    /\ log[2] \in OkEntries
    /\ Len(NormProgrammes(2)) >= 1
    /\ Len(Channels(tv_root)) > Len(NormChannels(1))

\* C6: the collected programmes are the concatenation, in source order, of
\* the programmes of the merged sources, and the written tree holds exactly
\* them: nothing is deduplicated or filtered.
C6_ProgrammesAppendOnly ==
    /\ programmes = AllNormProgrammes(Len(sources))
    /\ pc = "done" => Programmes(tv_root) = AllNormProgrammes(Len(sources))

\* the same source merged twice: equal programmes both written, and their
\* channel is no channel of the tree
C6_Witness ==
    /\ pc = "done"
    /\ Len(sources) = 2
    /\ sources[1] = sources[2]
    /\ Len(Programmes(tv_root)) = 2
    /\ Programmes(tv_root)[1] = Programmes(tv_root)[2]
    /\ Programmes(tv_root)[1].attrib.channel
           \notin ChannelIds(Channels(tv_root))

C7_Lookup(o) == IF o \in DOMAIN mappings THEN mappings[o] ELSE o

\* C7: channel ids and programme channel references in the output are the
\* original ids sent once through the table, identity where the table has no
\* entry.
C7_RemapOnce ==
    LET origc == AllOrigChannelIds(Len(sources))
        origp == AllOrigProgrammeChannels(Len(sources))
        refs(ps) == [k \in 1..Len(ps) |-> ps[k].attrib.channel]
    IN  /\ ChannelIds(Channels(tv_root))
              = {C7_Lookup(origc[k]) : k \in 1..Len(origc)}
        /\ refs(programmes) = [k \in 1..Len(origp) |-> C7_Lookup(origp[k])]
        /\ pc = "done" => refs(Programmes(tv_root)) = refs(programmes)

\* a table with a->b and b->a, and a source with channel a and programme a
C7_Witness ==
    /\ pc = "done"
    /\ DOMAIN mappings = {"a", "b"}
    /\ \E k \in 1..Len(AllOrigChannelIds(Len(sources))) :
          AllOrigChannelIds(Len(sources))[k] = "a"
    /\ \E k \in 1..Len(programmes) :
          /\ AllOrigProgrammeChannels(Len(sources))[k] = "a"
          /\ programmes[k].attrib.channel = "b"
    /\ \E k \in 1..Len(AllOrigChannelIds(Len(sources))) :
          AllOrigChannelIds(Len(sources))[k] = ""
    /\ "" \in ChannelIds(Channels(tv_root))

\* C8: once merge_sources runs, the write step is reached, exactly once and
\* only at the end; when no source was merged the tree written is empty.
C8_WriteOnce ==
    /\ (pc = "loop") ~> (pc = "done")
    /\ [](write_attempts = IF pc = "done" THEN 1 ELSE 0)
    /\ []((pc = "done" /\ \A i \in 1..Len(log) : log[i] \notin OkEntries)
             => tv_root = <<>>)

\* every source failed or was skipped, and the empty tree was written
C8_Witness ==
    /\ pc = "done"
    /\ Len(sources) = 2
    /\ log[1] \in FailEntries
    /\ log[2] \in FailEntries \cup {"no_url"}
    /\ write_attempts = 1
    /\ tv_root = <<>>

C10_DisplayNameNonEmpty ==
    \A k \in 1..Len(tv_root) :
        tv_root[k].tag = "channel" =>
            (Truthy(DisplayName(tv_root[k]))
             /\ strip(DisplayName(tv_root[k])) # "")

====
